---------------------------- MODULE Spec2Model ----------------------------
(***************************************************************************)
(* self-mcp: the command-line parser (parseArgs), the schema builder       *)
(* (buildToolSchema) and the two request handlers of src/index.ts.         *)
(*                                                                         *)
(* A JavaScript string is modelled as the sequence of its characters, each *)
(* a one-character string, so that split, trim, toLowerCase, join and      *)
(* startsWith are computed character by character as the runtime does.     *)
(*                                                                         *)
(* process.argv is read once per position, left to right.  The model fixes *)
(* its length (argc) at start-up and draws the content of a position when  *)
(* the loop reads it; positions the loop never reads have no influence on  *)
(* the program and are left undetermined.  A second specification,         *)
(* SpecArgv, fixes the whole of argv at start-up (variable args) and runs  *)
(* the same loop body over it, for the properties that speak of argv as a  *)
(* whole.                                                                  *)
(***************************************************************************)
EXTENDS Integers, Sequences, FiniteSets, TLC

(***************************************************************************)
(* Bounds of the model.                                                    *)
(***************************************************************************)
\* the longest argv (process.argv.slice(2)) the model explores
MaxArgs == 4

\* the longest argv SpecArgv fixes at start-up
MaxArgv == 4

(***************************************************************************)
(* String literals of the program.                                         *)
(***************************************************************************)
\* "--all-required"
ArgAllRequired ==
    <<"-","-","a","l","l","-","r","e","q","u","i","r","e","d">>

\* "--all-optional"
ArgAllOptional ==
    <<"-","-","a","l","l","-","o","p","t","i","o","n","a","l">>

\* "--required"
ArgRequired ==
    <<"-","-","r","e","q","u","i","r","e","d">>

\* "--optional"
ArgOptional ==
    <<"-","-","o","p","t","i","o","n","a","l">>

\* "--add-param"
ArgAddParam ==
    <<"-","-","a","d","d","-","p","a","r","a","m">>

\* "--tool-description"
ArgToolDescription ==
    <<"-","-","t","o","o","l","-","d","e","s","c","r","i","p","t","i","o","n">>

\* "--tool-description-file"
ArgToolDescriptionFile ==
    <<"-","-","t","o","o","l","-","d","e","s","c","r","i","p","t","i","o","n","-","f","i","l","e">>

\* "--help"
ArgHelp ==
    <<"-","-","h","e","l","p">>

\* "-h"
ArgH ==
    <<"-","h">>

\* "string"
Str_string ==
    <<"s","t","r","i","n","g">>

\* "number"
Str_number ==
    <<"n","u","m","b","e","r">>

\* "array"
Str_array ==
    <<"a","r","r","a","y">>

\* "any"
Str_any ==
    <<"a","n","y">>

\* "required"
Str_required ==
    <<"r","e","q","u","i","r","e","d">>

\* "optional"
Str_optional ==
    <<"o","p","t","i","o","n","a","l">>

\* "prompt"
Name_prompt ==
    <<"p","r","o","m","p","t">>

\* "temperature"
Name_temperature ==
    <<"t","e","m","p","e","r","a","t","u","r","e">>

\* "thinking_style"
Name_thinking_style ==
    <<"t","h","i","n","k","i","n","g","_","s","t","y","l","e">>

\* "archetype"
Name_archetype ==
    <<"a","r","c","h","e","t","y","p","e">>

\* "strategy"
Name_strategy ==
    <<"s","t","r","a","t","e","g","y">>

\* "scope"
Name_scope ==
    <<"s","c","o","p","e">>

\* "depth"
Name_depth ==
    <<"d","e","p","t","h">>

\* "extra"
Name_extra ==
    <<"e","x","t","r","a">>

\* "attention_heads"
Name_attention_heads ==
    <<"a","t","t","e","n","t","i","o","n","_","h","e","a","d","s">>

\* "The self-prompt or cognitive instruction"
Desc_prompt ==
    <<"T","h","e"," ","s","e","l","f","-","p","r","o","m","p","t"," ","o","r"," ","c","o","g","n","i",
      "t","i","v","e"," ","i","n","s","t","r","u","c","t","i","o","n">>

\* "Cognitive temperature"
Desc_temperature ==
    <<"C","o","g","n","i","t","i","v","e"," ","t","e","m","p","e","r","a","t","u","r","e">>

\* "Thinking approach"
Desc_thinking_style ==
    <<"T","h","i","n","k","i","n","g"," ","a","p","p","r","o","a","c","h">>

\* "Cognitive archetype"
Desc_archetype ==
    <<"C","o","g","n","i","t","i","v","e"," ","a","r","c","h","e","t","y","p","e">>

\* "Problem-solving strategy"
Desc_strategy ==
    <<"P","r","o","b","l","e","m","-","s","o","l","v","i","n","g"," ","s","t","r","a","t","e","g","y">>

\* "Cognitive zoom level"
Desc_scope ==
    <<"C","o","g","n","i","t","i","v","e"," ","z","o","o","m"," ","l","e","v","e","l">>

\* "Thoroughness and time investment"
Desc_depth ==
    <<"T","h","o","r","o","u","g","h","n","e","s","s"," ","a","n","d"," ","t","i","m","e"," ","i","n",
      "v","e","s","t","m","e","n","t">>

\* "Additional context or focus"
Desc_extra ==
    <<"A","d","d","i","t","i","o","n","a","l"," ","c","o","n","t","e","x","t"," ","o","r"," ","f","o",
      "c","u","s">>

\* "Parallel attention streams for simultaneously attending to multiple aspects. Each head focuses on a specific concern or dimension. Example: [{ name: 'empathy_head', query: 'signs of frustration or confusion' }, { name: 'truth_head', query: 'false assumptions needing correction' }]"
Desc_attention_heads ==
    <<"P","a","r","a","l","l","e","l"," ","a","t","t","e","n","t","i","o","n"," ","s","t","r","e","a",
      "m","s"," ","f","o","r"," ","s","i","m","u","l","t","a","n","e","o","u","s","l","y"," ","a","t",
      "t","e","n","d","i","n","g"," ","t","o"," ","m","u","l","t","i","p","l","e"," ","a","s","p","e",
      "c","t","s","."," ","E","a","c","h"," ","h","e","a","d"," ","f","o","c","u","s","e","s"," ","o",
      "n"," ","a"," ","s","p","e","c","i","f","i","c"," ","c","o","n","c","e","r","n"," ","o","r"," ",
      "d","i","m","e","n","s","i","o","n","."," ","E","x","a","m","p","l","e",":"," ","[","{"," ","n",
      "a","m","e",":"," ","'","e","m","p","a","t","h","y","_","h","e","a","d","'",","," ","q","u","e",
      "r","y",":"," ","'","s","i","g","n","s"," ","o","f"," ","f","r","u","s","t","r","a","t","i","o",
      "n"," ","o","r"," ","c","o","n","f","u","s","i","o","n","'"," ","}",","," ","{"," ","n","a","m",
      "e",":"," ","'","t","r","u","t","h","_","h","e","a","d","'",","," ","q","u","e","r","y",":"," ",
      "'","f","a","l","s","e"," ","a","s","s","u","m","p","t","i","o","n","s"," ","n","e","e","d","i",
      "n","g"," ","c","o","r","r","e","c","t","i","o","n","'"," ","}","]">>

\* "Self-prompt to shift cognitive mode and thinking approach. Explicit cognitive state changes across interleaved thinking turns. All parameters are freeform - invent whatever makes sense. The tool will always return an empty result. It is up to you Claude to fill this void with inspiration! For deep exploration: use multiple consecutive Self tool calls interleaved with thinking for multi-dimensional perspectives."
DefaultToolDescription ==
    <<"S","e","l","f","-","p","r","o","m","p","t"," ","t","o"," ","s","h","i","f","t"," ","c","o","g",
      "n","i","t","i","v","e"," ","m","o","d","e"," ","a","n","d"," ","t","h","i","n","k","i","n","g",
      " ","a","p","p","r","o","a","c","h","."," ","E","x","p","l","i","c","i","t"," ","c","o","g","n",
      "i","t","i","v","e"," ","s","t","a","t","e"," ","c","h","a","n","g","e","s"," ","a","c","r","o",
      "s","s"," ","i","n","t","e","r","l","e","a","v","e","d"," ","t","h","i","n","k","i","n","g"," ",
      "t","u","r","n","s","."," ","A","l","l"," ","p","a","r","a","m","e","t","e","r","s"," ","a","r",
      "e"," ","f","r","e","e","f","o","r","m"," ","-"," ","i","n","v","e","n","t"," ","w","h","a","t",
      "e","v","e","r"," ","m","a","k","e","s"," ","s","e","n","s","e","."," ","T","h","e"," ","t","o",
      "o","l"," ","w","i","l","l"," ","a","l","w","a","y","s"," ","r","e","t","u","r","n"," ","a","n",
      " ","e","m","p","t","y"," ","r","e","s","u","l","t","."," ","I","t"," ","i","s"," ","u","p"," ",
      "t","o"," ","y","o","u"," ","C","l","a","u","d","e"," ","t","o"," ","f","i","l","l"," ","t","h",
      "i","s"," ","v","o","i","d"," ","w","i","t","h"," ","i","n","s","p","i","r","a","t","i","o","n",
      "!"," ","F","o","r"," ","d","e","e","p"," ","e","x","p","l","o","r","a","t","i","o","n",":"," ",
      "u","s","e"," ","m","u","l","t","i","p","l","e"," ","c","o","n","s","e","c","u","t","i","v","e",
      " ","S","e","l","f"," ","t","o","o","l"," ","c","a","l","l","s"," ","i","n","t","e","r","l","e",
      "a","v","e","d"," ","w","i","t","h"," ","t","h","i","n","k","i","n","g"," ","f","o","r"," ","m",
      "u","l","t","i","-","d","i","m","e","n","s","i","o","n","a","l"," ","p","e","r","s","p","e","c",
      "t","i","v","e","s",".">>

(***************************************************************************)
(* Command-line tokens and files of the environment (inputs the model      *)
(* draws from; every program literal above is a possible token too).       *)
(***************************************************************************)
\* "--requried"
Tok_requried ==
    <<"-","-","r","e","q","u","r","i","e","d">>

\* "-x"
Tok_x ==
    <<"-","x">>

\* ""
Tok_empty ==
    <<>>

\* "url"
Csv_url ==
    <<"u","r","l">>

\* "depth,nope"
Csv_depth_nope ==
    <<"d","e","p","t","h",",","n","o","p","e">>

\* " depth , url "
Csv_depth_url ==
    <<" ","d","e","p","t","h"," ",","," ","u","r","l"," ">>

\* "url:string:Base URL: https://example.com:required"
Spec_url ==
    <<"u","r","l",":","s","t","r","i","n","g",":","B","a","s","e"," ","U","R","L",":"," ","h","t","t",
      "p","s",":","/","/","e","x","a","m","p","l","e",".","c","o","m",":","r","e","q","u","i","r","e",
      "d">>

\* "count:Number:desc"
Spec_count ==
    <<"c","o","u","n","t",":","N","u","m","b","e","r",":","d","e","s","c">>

\* "id:stringg:desc"
Spec_typo ==
    <<"i","d",":","s","t","r","i","n","g","g",":","d","e","s","c">>

\* "incomplete"
Spec_incomplete ==
    <<"i","n","c","o","m","p","l","e","t","e">>

\* "x:any"
Spec_two ==
    <<"x",":","a","n","y">>

\* "prompt:string:dup"
Spec_dup ==
    <<"p","r","o","m","p","t",":","s","t","r","i","n","g",":","d","u","p">>

\* " :string:desc"
Spec_noname ==
    <<" ",":","s","t","r","i","n","g",":","d","e","s","c">>

\* "focus:string: :optional"
Spec_nodesc ==
    <<"f","o","c","u","s",":","s","t","r","i","n","g",":"," ",":","o","p","t","i","o","n","a","l">>

\* "focus:string:required"
Spec_suffix_only ==
    <<"f","o","c","u","s",":","s","t","r","i","n","g",":","r","e","q","u","i","r","e","d">>

\* "when:any: 10:30-11:00 "
Spec_when ==
    <<"w","h","e","n",":","a","n","y",":"," ","1","0",":","3","0","-","1","1",":","0","0"," ">>

\* "tags: ARRAY :List: a:b: Optional "
Spec_tags ==
    <<"t","a","g","s",":"," ","A","R","R","A","Y"," ",":","L","i","s","t",":"," ","a",":","b",":"," ",
      "O","p","t","i","o","n","a","l"," ">>

\* " Be calm. "
Txt_calm ==
    <<" ","B","e"," ","c","a","l","m","."," ">>

\* "  "
Txt_blank ==
    <<" "," ">>

\* "desc.txt"
Path_desc ==
    <<"d","e","s","c",".","t","x","t">>

\* "empty.txt"
Path_empty ==
    <<"e","m","p","t","y",".","t","x","t">>

\* "Think in steps.\n"
File_desc ==
    <<"T","h","i","n","k"," ","i","n"," ","s","t","e","p","s",".","\n">>

\* " \n"
File_empty ==
    <<" ","\n">>

\* "Base URL: https://example.com"
Str_url_description ==
    <<"B","a","s","e"," ","U","R","L",":"," ","h","t","t","p","s",":","/","/","e","x","a","m","p","l",
      "e",".","c","o","m">>

\* "level:number:Level: 1:5: REQUIRED "
Spec_level ==
    <<"l","e","v","e","l",":","n","u","m","b","e","r",":","L","e","v","e","l",":"," ","1",":","5",":",
      " ","R","E","Q","U","I","R","E","D"," ">>

\* "mode:string:Mode: optional:required"
Spec_double ==
    <<"m","o","d","e",":","s","t","r","i","n","g",":","M","o","d","e",":"," ","o","p","t","i","o","n",
      "a","l",":","r","e","q","u","i","r","e","d">>

\* "depth,extra"
Csv_depth_extra ==
    <<"d","e","p","t","h",",","e","x","t","r","a">>

\* what a command-line position can hold
Tokens ==
    { ArgAllRequired, ArgAllOptional, ArgRequired, ArgOptional, ArgAddParam,
      ArgToolDescription, ArgToolDescriptionFile, ArgHelp, ArgH,
      Tok_requried, Tok_x, Tok_empty,
      Name_prompt, Csv_url, Csv_depth_nope, Csv_depth_url,
      Spec_url, Spec_count, Spec_typo, Spec_incomplete, Spec_two, Spec_dup,
      Spec_noname, Spec_nodesc, Spec_suffix_only, Spec_when, Spec_tags,
      Spec_level, Spec_double,
      Txt_calm, Txt_blank, Path_desc, Path_empty }

\* what a position of an argv fixed at start-up can hold: the requiredness
\* directives and --add-param, with values for them
ArgvTokens ==
    { ArgAllRequired, ArgAllOptional, ArgRequired, ArgOptional, ArgAddParam,
      Name_prompt, Csv_depth_extra, Csv_url, Spec_url, Spec_count }

\* what a position of an argv fixed at start-up can hold when it is the
\* reading of the tokens that matters: directives with and without a value,
\* --help, a misspelt flag, a word and the empty string
FlagTokens ==
    { ArgAllRequired, ArgOptional, ArgToolDescription, ArgHelp,
      Tok_requried, Name_prompt, Tok_empty }

\* the files that exist, with their content; any other path cannot be read
Files == { <<Path_desc, File_desc>>, <<Path_empty, File_empty>> }

(***************************************************************************)
(* JavaScript values and built-ins the program uses.                       *)
(***************************************************************************)
\* null and undefined: one-element tuples no string equals (a string's
\* elements are single characters)
null == <<"null">>

undefined == <<"undefined">>

\* ToBoolean of a string-or-undefined: undefined and "" are falsy
Truthy(v) == v # undefined /\ v # null /\ v # <<>>

WhiteSpace == {" ", "\t", "\n", "\r"}

UpperCase ==
    <<"A","B","C","D","E","F","G","H","I","J","K","L","M",
      "N","O","P","Q","R","S","T","U","V","W","X","Y","Z">>

LowerCase ==
    <<"a","b","c","d","e","f","g","h","i","j","k","l","m",
      "n","o","p","q","r","s","t","u","v","w","x","y","z">>

toLowerCaseChar(c) ==
    IF \E k \in 1..Len(UpperCase) : UpperCase[k] = c
    THEN LowerCase[CHOOSE k \in 1..Len(UpperCase) : UpperCase[k] = c]
    ELSE c

\* String.prototype.toLowerCase
toLowerCase(s) == [k \in 1..Len(s) |-> toLowerCaseChar(s[k])]

RECURSIVE trimStart(_)
trimStart(s) ==
    IF s # <<>> /\ Head(s) \in WhiteSpace THEN trimStart(Tail(s)) ELSE s

RECURSIVE trimEnd(_)
trimEnd(s) ==
    IF s # <<>> /\ s[Len(s)] \in WhiteSpace
    THEN trimEnd(SubSeq(s, 1, Len(s) - 1))
    ELSE s

\* String.prototype.trim
trim(s) == trimEnd(trimStart(s))

\* String.prototype.split with a one-character separator: "" gives [""]
RECURSIVE split(_, _)
split(s, sep) ==
    IF \A k \in 1..Len(s) : s[k] # sep
    THEN << s >>
    ELSE LET k == CHOOSE j \in 1..Len(s) :
                      s[j] = sep /\ \A h \in 1..(j - 1) : s[h] # sep
         IN  << SubSeq(s, 1, k - 1) >> \o split(SubSeq(s, k + 1, Len(s)), sep)

\* Array.prototype.join
RECURSIVE join(_, _)
join(a, sep) ==
    IF Len(a) = 0 THEN <<>>
    ELSE IF Len(a) = 1 THEN a[1]
    ELSE a[1] \o sep \o join(Tail(a), sep)

\* Array.prototype.slice(start, end), indices from 0, negative from the end
slice(a, start, end) ==
    LET n    == Len(a)
        from == IF start < 0 THEN (IF n + start < 0 THEN 0 ELSE n + start)
                ELSE (IF start > n THEN n ELSE start)
        to   == IF end < 0 THEN (IF n + end < 0 THEN 0 ELSE n + end)
                ELSE (IF end > n THEN n ELSE end)
    IN  SubSeq(a, from + 1, to)

\* Array.prototype.includes
includes(a, x) == \E k \in 1..Len(a) : a[k] = x

\* String.prototype.startsWith
startsWith(s, prefix) ==
    Len(s) >= Len(prefix) /\ SubSeq(s, 1, Len(prefix)) = prefix

\* fs.readFileSync(filepath, "utf-8"): the content, or null when it throws
readFileSync(filepath) ==
    IF \E f \in Files : f[1] = filepath
    THEN (CHOOSE f \in Files : f[1] = filepath)[2]
    ELSE null

(***************************************************************************)
(* Parameter definitions.                                                  *)
(***************************************************************************)
AttentionHeadItems ==
    [ type |-> "object",
      properties |->
        [ name  |-> [ type |-> "string",
                      description |-> "Name of this attention head (e.g., empathy_head, safety_head, truth_head)" ],
          query |-> [ type |-> "string",
                      description |-> "What this head is attending to" ] ],
      required |-> << "name", "query" >> ]

\* mutant: the parameters and required list of version 0.1.0
DEFAULT_PARAMS_v010 ==
    << [ name |-> Name_prompt, type |-> Str_string, description |-> Desc_prompt,
         required |-> TRUE ],
       [ name |-> Name_temperature, type |-> Str_number,
         description |-> Desc_temperature, minimum |-> 0, maximum |-> 2,
         required |-> TRUE ],
       [ name |-> Name_thinking_style, type |-> Str_string,
         description |-> Desc_thinking_style, required |-> TRUE ],
       [ name |-> Name_archetype, type |-> Str_string,
         description |-> Desc_archetype, required |-> TRUE ],
       [ name |-> Name_strategy, type |-> Str_string,
         description |-> Desc_strategy, required |-> TRUE ],
       [ name |-> Name_extra, type |-> Str_string, description |-> Desc_extra,
         required |-> FALSE ] >>

DEFAULT_PARAMS ==
    << [ name |-> Name_prompt, type |-> Str_string, description |-> Desc_prompt,
         required |-> TRUE ],
       [ name |-> Name_temperature, type |-> Str_number,
         description |-> Desc_temperature, minimum |-> 0, maximum |-> 2,
         required |-> FALSE ],
       [ name |-> Name_thinking_style, type |-> Str_string,
         description |-> Desc_thinking_style, required |-> FALSE ],
       [ name |-> Name_archetype, type |-> Str_string,
         description |-> Desc_archetype, required |-> FALSE ],
       [ name |-> Name_strategy, type |-> Str_string,
         description |-> Desc_strategy, required |-> FALSE ],
       [ name |-> Name_scope, type |-> Str_string, description |-> Desc_scope,
         required |-> FALSE ],
       [ name |-> Name_depth, type |-> Str_string, description |-> Desc_depth,
         required |-> FALSE ],
       [ name |-> Name_extra, type |-> Str_string, description |-> Desc_extra,
         required |-> FALSE ],
       [ name |-> Name_attention_heads, type |-> Str_array,
         description |-> Desc_attention_heads, items |-> AttentionHeadItems,
         required |-> FALSE ] >>

(***************************************************************************)
(* State.                                                                  *)
(***************************************************************************)
VARIABLES
    args,                   \* process.argv.slice(2) when fixed at start-up,
                            \* undefined when its positions are drawn as read
    argc,                   \* args.length
    i,                      \* the loop index of parseArgs
    arg,                    \* args[i] as read by the latest iteration
    argNext,                \* args[i + 1] as read by that iteration's test
    params,                 \* the parameter definitions (paramDefs once returned)
    customToolDescription,
    toolDescriptionSource,
    pc,                     \* "parseArgs", "serving", "exit0", "exit1"
    stderr,                 \* console.error lines
    stdout,                 \* console.log lines
    request,                \* the latest request delivered to a handler
    response                \* the answer to it

vars ==
    << args, argc, i, arg, argNext, params, customToolDescription,
       toolDescriptionSource, pc, stderr, stdout, request, response >>

Init ==
    /\ args = undefined
    /\ argc \in 0..MaxArgs
    /\ i = 0
    /\ arg = undefined
    /\ argNext = undefined
    /\ params = DEFAULT_PARAMS
    /\ customToolDescription = null
    /\ toolDescriptionSource = null
    /\ pc = "parseArgs"
    /\ stderr = <<>>
    /\ stdout = <<>>
    /\ request = [ method |-> "none" ]
    /\ response = [ kind |-> "none" ]

(***************************************************************************)
(* parseArgs: the helpers of one loop iteration.                           *)
(***************************************************************************)
\* mutant: the names known are those of the built-in definitions
existingNames_builtIn(ps) ==
    [k \in 1..Len(DEFAULT_PARAMS) |-> DEFAULT_PARAMS[k].name]

\* params.map(p => p.name)
existingNames(ps) == [k \in 1..Len(ps) |-> ps[k].name]

\* args[++i].split(",").map(s => s.trim())
csvNames(value) ==
    LET raw == split(value, ",") IN [k \in 1..Len(raw) |-> trim(raw[k])]

\* mutant: the names are not validated
invalidNames_none(names, existing) == <<>>

\* names.filter(n => !existingNames.includes(n))
invalidNames(names, existing) ==
    SelectSeq(names, LAMBDA n : ~includes(existing, n))

\* mutant: the entries are rebuilt without their other optional fields
setAllRequired_bare(ps, flag) ==
    [k \in 1..Len(ps) |->
        [ name        |-> ps[k].name,
          type        |-> ps[k].type,
          description |-> ps[k].description,
          required    |-> flag ]]

\* mutant: the narrower historical behaviour, prompt stays as it is
setAllRequired_exceptPrompt(ps, flag) ==
    [k \in 1..Len(ps) |->
        IF ps[k].name = Name_prompt
        THEN ps[k]
        ELSE [ps[k] EXCEPT !.required = flag]]

\* params.map(p => ({ ...p, required: flag }))
setAllRequired(ps, flag) ==
    [k \in 1..Len(ps) |-> [ps[k] EXCEPT !.required = flag]]

\* mutant: the names given are the only entries with that flag
setRequired_exclusive(ps, names, flag) ==
    [k \in 1..Len(ps) |->
        [ps[k] EXCEPT !.required =
            IF includes(names, ps[k].name) THEN flag ELSE ~flag]]

\* mutant: the --optional branch copies the --required branch unchanged
setRequired_alwaysTrue(ps, names, flag) ==
    [k \in 1..Len(ps) |->
        IF includes(names, ps[k].name)
        THEN [ps[k] EXCEPT !.required = TRUE]
        ELSE ps[k]]

\* params.map(p => names.includes(p.name) ? { ...p, required: flag } : p)
setRequired(ps, names, flag) ==
    [k \in 1..Len(ps) |->
        IF includes(names, ps[k].name)
        THEN [ps[k] EXCEPT !.required = flag]
        ELSE ps[k]]

\* the fewest ':'-separated parts of an --add-param spec
minParts == 3

validTypes == << Str_string, Str_number, Str_array, Str_any >>

\* mutant: an unrecognized type is let through
isValidType_any(normalizedType) == TRUE

\* validTypes.includes(normalizedType)
isValidType(normalizedType) == includes(validTypes, normalizedType)

\* mutant: no duplicate check
isDuplicate_never(ps, name) == FALSE

\* existingNames.includes(name)
isDuplicate(ps, name) == includes(existingNames(ps), name)

\* mutant: the last part is compared as it is written
lastPart_asWritten(parts) == trim(parts[Len(parts)])

\* parts[parts.length - 1].trim().toLowerCase()
lastPart(parts) == toLowerCase(trim(parts[Len(parts)]))

\* mutant: a third part is always description
hasRequiredSuffix_pastThird(parts) ==
    /\ Len(parts) > minParts
    /\ (lastPart(parts) = Str_required \/ lastPart(parts) = Str_optional)

\* lastPart === "required" || lastPart === "optional"
hasRequiredSuffix(parts) ==
    lastPart(parts) = Str_required \/ lastPart(parts) = Str_optional

\* mutant: the description is the third part alone
descriptionParts_thirdOnly(parts) == << parts[3] >>

descriptionParts(parts) ==
    IF hasRequiredSuffix(parts)
    THEN slice(parts, 2, -1)
    ELSE slice(parts, 2, Len(parts))

\* mutant: the description is not trimmed
description_untrimmed(parts) == join(descriptionParts(parts), <<":">>)

\* descriptionParts.join(":").trim()
description(parts) == trim(join(descriptionParts(parts), <<":">>))

isRequired(parts) ==
    IF hasRequiredSuffix(parts) THEN lastPart(parts) = Str_required ELSE FALSE

\* mutant: an unknown flag is not detected
isFlag_never(a) == FALSE

\* mutant: every unrecognized token is reported
isFlag_always(a) == TRUE

\* arg.startsWith("--") || arg.startsWith("-")
isFlag(a) == startsWith(a, <<"-","-">>) \/ startsWith(a, <<"-">>)

\* the directives whose test reads args[i + 1]
valueDirectives ==
    { ArgRequired, ArgOptional, ArgAddParam, ArgToolDescription,
      ArgToolDescriptionFile }

\* the usage text of --help
HelpText == "Self-MCP Server - Metacognitive self-prompting for Claude ..."

(***************************************************************************)
(* parseArgs: how an iteration ends.                                       *)
(***************************************************************************)
\* mutant: the diagnostic is printed and the loop goes on
Fail_noexit(lines, at) ==
    /\ stderr' = stderr \o lines
    /\ i' = at + 1
    /\ UNCHANGED << pc, params, customToolDescription, toolDescriptionSource, stdout >>

\* console.error(lines...); process.exit(1)
Fail(lines, at) ==
    /\ stderr' = stderr \o lines
    /\ pc' = "exit1"
    /\ i' = at
    /\ UNCHANGED << params, customToolDescription, toolDescriptionSource, stdout >>

\* the branch ends and the loop's i++ runs
Continue(ps, ctd, tds, at) ==
    /\ params' = ps
    /\ customToolDescription' = ctd
    /\ toolDescriptionSource' = tds
    /\ i' = at + 1
    /\ UNCHANGED << pc, stderr, stdout >>

(***************************************************************************)
(* parseArgs: the branches of the loop body.                               *)
(***************************************************************************)
\* --required <csv> (flag = TRUE), --optional <csv> (flag = FALSE)
MarkRequired(directive, value, flag) ==
    LET names   == csvNames(value)
        invalid == invalidNames(names, existingNames(params))
    IN  IF Len(invalid) > 0
        THEN Fail(<< << "ERROR: Unknown parameter names in ${directive}: ${invalidNames.join(', ')}",
                        directive, join(invalid, <<",", " ">>) >>,
                     << "Available parameters: ${existingNames.join(', ')}",
                        join(existingNames(params), <<",", " ">>) >> >>,
                  i + 1)
        ELSE Continue(setRequired(params, names, flag),
                      customToolDescription, toolDescriptionSource, i + 1)

\* mutant: a malformed spec is dropped silently
invalidFormat_dropped(spec) ==
    Continue(params, customToolDescription, toolDescriptionSource, i + 1)

\* --add-param <spec>: parts.length < 3
invalidFormat(spec) ==
    Fail(<< << "ERROR: Invalid --add-param format: '${spec}'", spec >>,
            << "Expected format: name:type:description[:required]" >>,
            << "Example: --add-param \"focus:string:Current focus area:optional\"" >> >>,
         i + 1)

\* mutant: the type is compared as it is written
normalizedType_asGiven(type) == type

\* const normalizedType = type.toLowerCase()
normalizedType(type) == toLowerCase(type)

\* --add-param <spec>
AddParam(spec) ==
    LET parts == split(spec, ":")
        name  == trim(parts[1])
        type  == trim(parts[2])
    IN  IF Len(parts) < minParts
        THEN invalidFormat(spec)
        ELSE IF Len(name) = 0
        THEN Fail(<< << "ERROR: Parameter name cannot be empty in --add-param '${spec}'",
                        spec >> >>, i + 1)
        ELSE IF ~isValidType(normalizedType(type))
        THEN Fail(<< << "ERROR: Invalid type '${type}' in --add-param '${spec}'",
                        type, spec >>,
                     << "Valid types: string, number, array, any" >> >>, i + 1)
        ELSE IF isDuplicate(params, name)
        THEN Fail(<< << "ERROR: Parameter '${name}' already exists", name >>,
                     << "Choose a different name or use --required/--optional to modify it" >> >>,
                  i + 1)
        ELSE IF Len(description(parts)) = 0
        THEN Fail(<< << "ERROR: Parameter description cannot be empty in --add-param '${spec}'",
                        spec >> >>, i + 1)
        ELSE Continue(Append(params, [ name        |-> name,
                                       type        |-> normalizedType(type),
                                       description |-> description(parts),
                                       required    |-> isRequired(parts) ]),
                      customToolDescription, toolDescriptionSource, i + 1)

\* mutant: the override is never seen as set
overrideIsSet_never == FALSE

\* toolDescriptionSource !== null
overrideIsSet == toolDescriptionSource # null

\* the override is already set: which message the directive prints
alreadySet(directive) ==
    IF toolDescriptionSource = directive
    THEN << "ERROR: ${directive} can only be used once", directive >>
    ELSE << "ERROR: Cannot use both --tool-description and --tool-description-file" >>

\* mutant: the value is not stepped over
ToolDescription_noSkip(value) ==
    IF overrideIsSet
    THEN Fail(<< alreadySet(ArgToolDescription) >>, i)
    ELSE IF Len(trim(value)) = 0
    THEN Fail(<< << "ERROR: Tool description cannot be empty" >> >>, i + 1)
    ELSE Continue(params, trim(value), ArgToolDescription, i)

\* --tool-description <text>
ToolDescription(value) ==
    IF overrideIsSet
    THEN Fail(<< alreadySet(ArgToolDescription) >>, i)
    ELSE IF Len(trim(value)) = 0
    THEN Fail(<< << "ERROR: Tool description cannot be empty" >> >>, i + 1)
    ELSE Continue(params, trim(value), ArgToolDescription, i + 1)

\* --tool-description-file <path>
ToolDescriptionFile(filepath) ==
    IF overrideIsSet
    THEN Fail(<< alreadySet(ArgToolDescriptionFile) >>, i)
    ELSE IF readFileSync(filepath) = null
    THEN Fail(<< << "ERROR: Failed to read tool description file '${filepath}': ${error.message}",
                    filepath, "ENOENT" >> >>, i + 1)
    ELSE IF Len(trim(readFileSync(filepath))) = 0
    THEN Fail(<< << "ERROR: Tool description file '${filepath}' is empty",
                    filepath >> >>, i + 1)
    ELSE Continue(params, trim(readFileSync(filepath)), ArgToolDescriptionFile,
                  i + 1)

\* mutant: help is printed and the loop goes on
Help_goesOn ==
    /\ stdout' = Append(stdout, HelpText)
    /\ i' = i + 1
    /\ UNCHANGED << pc, params, customToolDescription, toolDescriptionSource,
                    stderr >>

\* mutant: help exits with status 1
Help_exit1 ==
    /\ stdout' = Append(stdout, HelpText)
    /\ pc' = "exit1"
    /\ UNCHANGED << i, params, customToolDescription, toolDescriptionSource,
                    stderr >>

\* --help, -h: console.log(usage); process.exit(0)
Help ==
    /\ stdout' = Append(stdout, HelpText)
    /\ pc' = "exit0"
    /\ UNCHANGED << i, params, customToolDescription, toolDescriptionSource,
                    stderr >>

\* one iteration of the for loop over args:  a = args[i], n = args[i + 1]
LoopBody(a, n) ==
    IF a = ArgAllRequired
    THEN Continue(setAllRequired(params, TRUE),
                  customToolDescription, toolDescriptionSource, i)
    ELSE IF a = ArgAllOptional
    THEN Continue(setAllRequired(params, FALSE),
                  customToolDescription, toolDescriptionSource, i)
    ELSE IF a = ArgRequired /\ Truthy(n)
    THEN MarkRequired(ArgRequired, n, TRUE)
    ELSE IF a = ArgOptional /\ Truthy(n)
    THEN MarkRequired(ArgOptional, n, FALSE)
    ELSE IF a = ArgAddParam /\ Truthy(n)
    THEN AddParam(n)
    ELSE IF a = ArgToolDescription /\ Truthy(n)
    THEN ToolDescription(n)
    ELSE IF a = ArgToolDescriptionFile /\ Truthy(n)
    THEN ToolDescriptionFile(n)
    ELSE IF a = ArgHelp \/ a = ArgH
    THEN Help
    ELSE IF isFlag(a)
    THEN Fail(<< << "ERROR: Unknown argument: ${arg}", a >>,
                 << "Run with --help to see available options" >> >>, i)
    ELSE Continue(params, customToolDescription, toolDescriptionSource, i)

(***************************************************************************)
(* Actions.                                                                *)
(***************************************************************************)
\* parseArgs, one iteration: reads args[i] and, in the test of a directive
\* that takes a value, args[i + 1] (undefined past the end of args)
ParseStep ==
    /\ pc = "parseArgs"
    /\ i < argc
    /\ \E a \in Tokens, n \in Tokens \cup {undefined} :
          /\ IF a \in valueDirectives
             THEN (n = undefined) <=> (i + 1 >= argc)
             ELSE n = undefined
          /\ arg' = a
          /\ argNext' = n
          /\ LoopBody(a, n)
          /\ UNCHANGED << args, argc, request, response >>

\* parseArgs returns params (paramDefs), the handlers are registered and
\* main() connects the server and announces it on the error stream
Main ==
    /\ pc = "parseArgs"
    /\ i >= argc
    /\ pc' = "serving"
    /\ stderr' = Append(stderr, << "Self-MCP server running on stdio" >>)
    /\ UNCHANGED << args, argc, i, arg, argNext, params, customToolDescription,
                    toolDescriptionSource, stdout, request, response >>

\* main(): server.connect(transport) rejects and the catch handler exits
ConnectFails ==
    /\ pc = "parseArgs"
    /\ i >= argc
    /\ stderr' = Append(stderr, << "Server error:" >>)
    /\ pc' = "exit1"
    /\ UNCHANGED << args, argc, i, arg, argNext, params, customToolDescription,
                    toolDescriptionSource, stdout, request, response >>

(***************************************************************************)
(* The schema builder and the request handlers.                            *)
(***************************************************************************)
\* mutant: the schema of version 0.1.0, fixed in the source
paramDefs_defaults == DEFAULT_PARAMS

\* const paramDefs = parseArgs()
paramDefs == params

NoFields == [x \in {} |-> x]

\* mutant: the type is copied whatever it is
propDef_typedAny(param) ==
    ("description" :> param.description)
    @@ ("type" :> param.type)
    @@ (IF param.type = Str_number /\ "minimum" \in DOMAIN param
        THEN ("minimum" :> param.minimum) ELSE NoFields)
    @@ (IF param.type = Str_number /\ "maximum" \in DOMAIN param
        THEN ("maximum" :> param.maximum) ELSE NoFields)
    @@ (IF param.type = Str_array /\ "items" \in DOMAIN param
        THEN ("items" :> param.items) ELSE NoFields)

\* the property descriptor buildToolSchema makes of one parameter
propDef(param) ==
    ("description" :> param.description)
    @@ (IF param.type # Str_any THEN ("type" :> param.type) ELSE NoFields)
    @@ (IF param.type = Str_number /\ "minimum" \in DOMAIN param
        THEN ("minimum" :> param.minimum) ELSE NoFields)
    @@ (IF param.type = Str_number /\ "maximum" \in DOMAIN param
        THEN ("maximum" :> param.maximum) ELSE NoFields)
    @@ (IF param.type = Str_array /\ "items" \in DOMAIN param
        THEN ("items" :> param.items) ELSE NoFields)

\* properties[param.name] = propDef, in the order of paramDefs: the last
\* assignment to a key is the one that stays
schemaProperties(defs) ==
    [ n \in { defs[k].name : k \in 1..Len(defs) } |->
        propDef(defs[CHOOSE k \in 1..Len(defs) :
                        /\ defs[k].name = n
                        /\ \A h \in (k + 1)..Len(defs) : defs[h].name # n]) ]

\* mutant: every name is pushed
schemaRequired_all(defs) == existingNames(defs)

\* if (param.required) required.push(param.name)
schemaRequired(defs) ==
    existingNames(SelectSeq(defs, LAMBDA p : p.required))

buildToolSchema ==
    [ type       |-> "object",
      properties |-> schemaProperties(paramDefs),
      required   |-> schemaRequired(paramDefs) ]

\* the tool names and arguments a client sends
ToolNames == { "Self", "self", "Other" }

ToolArguments == { "absent", "object", "string" }

\* mutant: the description of version 0.1.0, fixed in the source
toolDescription_default == DefaultToolDescription

\* customToolDescription || "Self-prompt to shift cognitive mode ..."
toolDescription ==
    IF Truthy(customToolDescription)
    THEN customToolDescription
    ELSE DefaultToolDescription

\* the ListToolsRequestSchema handler
ListTools ==
    /\ pc = "serving"
    /\ request' = [ method |-> "tools/list" ]
    /\ response' =
          [ kind  |-> "result",
            tools |-> << [ name        |-> "Self",
                           description |-> toolDescription,
                           inputSchema |-> buildToolSchema ] >> ]
    /\ UNCHANGED << args, argc, i, arg, argNext, params, customToolDescription,
                    toolDescriptionSource, pc, stderr, stdout >>

\* mutant: any tool name is served
isUnknownTool_never(name) == FALSE

\* request.params.name !== "Self"
isUnknownTool(name) == name # "Self"

\* mutant: the acknowledgement text of version 0.1.0
callToolText_acknowledged == "Self-prompt acknowledged."

\* text: ""
callToolText == ""

\* what the CallToolRequestSchema handler returns or throws; request.params
\* .arguments is not read
callToolHandler(name, arguments) ==
    IF isUnknownTool(name)
    THEN [ kind |-> "error",
           message |-> << "Unknown tool: ${request.params.name}", name >> ]
    ELSE [ kind |-> "result",
           content |-> << [ type |-> "text", text |-> callToolText ] >> ]

\* a tools/call request: the result is returned, an Error thrown by the
\* handler is answered as an error response
CallTool ==
    /\ pc = "serving"
    /\ \E name \in ToolNames, arguments \in ToolArguments :
          /\ request' = [ method |-> "tools/call", name |-> name,
                          arguments |-> arguments ]
          /\ response' = callToolHandler(name, arguments)
    /\ UNCHANGED << args, argc, i, arg, argNext, params, customToolDescription,
                    toolDescriptionSource, pc, stderr, stdout >>

Next ==
    \/ ParseStep
    \/ Main
    \/ ConnectFails
    \/ ListTools
    \/ CallTool

Spec == Init /\ [][Next]_vars

(***************************************************************************)
(* The same program with args = process.argv.slice(2) fixed at start-up.   *)
(***************************************************************************)
\* every argv of at most MaxArgv positions
Argvs == UNION { [1..n -> ArgvTokens] : n \in 0..MaxArgv }

InitArgv ==
    /\ args \in Argvs
    /\ argc = Len(args)
    /\ i = 0
    /\ arg = undefined
    /\ argNext = undefined
    /\ params = DEFAULT_PARAMS
    /\ customToolDescription = null
    /\ toolDescriptionSource = null
    /\ pc = "parseArgs"
    /\ stderr = << >>
    /\ stdout = << >>
    /\ request = [ method |-> "none" ]
    /\ response = [ kind |-> "none" ]

\* args[i + 1] as the test of a value-taking directive reads it
nextArg(as, at) == IF at + 1 < Len(as) THEN as[at + 2] ELSE undefined

\* parseArgs, one iteration over the fixed args
ParseArgv ==
    /\ pc = "parseArgs"
    /\ i < argc
    /\ arg' = args[i + 1]
    /\ argNext' = IF args[i + 1] \in valueDirectives
                  THEN nextArg(args, i)
                  ELSE undefined
    /\ LoopBody(args[i + 1], nextArg(args, i))
    /\ UNCHANGED << args, argc, request, response >>

NextArgv ==
    \/ ParseArgv
    \/ Main
    \/ ConnectFails
    \/ ListTools
    \/ CallTool

SpecArgv == InitArgv /\ [][NextArgv]_vars

\* the same, over the argvs made of FlagTokens
InitFlags ==
    /\ args \in UNION { [1..n -> FlagTokens] : n \in 0..MaxArgv }
    /\ argc = Len(args)
    /\ i = 0
    /\ arg = undefined
    /\ argNext = undefined
    /\ params = DEFAULT_PARAMS
    /\ customToolDescription = null
    /\ toolDescriptionSource = null
    /\ pc = "parseArgs"
    /\ stderr = << >>
    /\ stdout = << >>
    /\ request = [ method |-> "none" ]
    /\ response = [ kind |-> "none" ]

SpecFlags == InitFlags /\ [][NextArgv]_vars

(***************************************************************************)
(* parseArgs as a function of args: the configuration it returns, or the   *)
(* status it exits with.  A configuration holds params and the two         *)
(* override fields; its status is "running" inside the loop.               *)
(***************************************************************************)
\* the module state when parseArgs is called
initialConfig ==
    [ status                |-> "running",
      params                |-> DEFAULT_PARAMS,
      customToolDescription |-> null,
      toolDescriptionSource |-> null ]

\* process.exit(code) inside the loop
exitOf(c, code) == [c EXCEPT !.status = code]

\* --required <csv> (flag = TRUE), --optional <csv> (flag = FALSE)
markRequiredOf(c, value, flag) ==
    IF Len(invalidNames(csvNames(value), existingNames(c.params))) > 0
    THEN exitOf(c, "exit1")
    ELSE [c EXCEPT !.params = setRequired(@, csvNames(value), flag)]

\* --add-param <spec>
addParamOf(c, spec) ==
    LET parts == split(spec, ":")
        name  == trim(parts[1])
        type  == trim(parts[2])
    IN  IF \/ Len(parts) < minParts
           \/ Len(name) = 0
           \/ ~isValidType(normalizedType(type))
           \/ isDuplicate(c.params, name)
           \/ Len(description(parts)) = 0
        THEN exitOf(c, "exit1")
        ELSE [c EXCEPT !.params =
                 Append(@, [ name        |-> name,
                             type        |-> normalizedType(type),
                             description |-> description(parts),
                             required    |-> isRequired(parts) ])]

\* --tool-description <text> (text), --tool-description-file <path> (the
\* content of the file, null if it cannot be read)
toolDescriptionOf(c, directive, text) ==
    IF \/ c.toolDescriptionSource # null
       \/ text = null
       \/ Len(trim(text)) = 0
    THEN exitOf(c, "exit1")
    ELSE [c EXCEPT !.customToolDescription = trim(text),
                   !.toolDescriptionSource = directive]

\* one iteration of the for loop over args:  a = args[i], n = args[i + 1]
loopBodyOf(c, a, n) ==
    IF a = ArgAllRequired
    THEN [c EXCEPT !.params = setAllRequired(@, TRUE)]
    ELSE IF a = ArgAllOptional
    THEN [c EXCEPT !.params = setAllRequired(@, FALSE)]
    ELSE IF a = ArgRequired /\ Truthy(n)
    THEN markRequiredOf(c, n, TRUE)
    ELSE IF a = ArgOptional /\ Truthy(n)
    THEN markRequiredOf(c, n, FALSE)
    ELSE IF a = ArgAddParam /\ Truthy(n)
    THEN addParamOf(c, n)
    ELSE IF a = ArgToolDescription /\ Truthy(n)
    THEN toolDescriptionOf(c, ArgToolDescription, n)
    ELSE IF a = ArgToolDescriptionFile /\ Truthy(n)
    THEN toolDescriptionOf(c, ArgToolDescriptionFile, readFileSync(n))
    ELSE IF a = ArgHelp \/ a = ArgH
    THEN exitOf(c, "exit0")
    ELSE IF isFlag(a)
    THEN exitOf(c, "exit1")
    ELSE c

\* the for loop from args[at] on: a branch that takes a value runs ++i
RECURSIVE parseArgsFrom(_, _, _)
parseArgsFrom(as, at, c) ==
    IF c.status # "running"
    THEN c
    ELSE IF at >= Len(as)
    THEN [c EXCEPT !.status = "returned"]
    ELSE parseArgsFrom(as,
                       IF as[at + 1] \in valueDirectives
                          /\ Truthy(nextArg(as, at))
                       THEN at + 2
                       ELSE at + 1,
                       loopBodyOf(c, as[at + 1], nextArg(as, at)))

parseArgsOf(as) == parseArgsFrom(as, 0, initialConfig)

(***************************************************************************)
(* Properties.  An --add-param spec is described here by the positions of  *)
(* its colons, independently of the split/slice/join of parseArgs.         *)
(***************************************************************************)
ColonIndices(s) == { k \in 1..Len(s) : s[k] = ":" }

\* the position of the n-th colon of s
NthColon(s, n) ==
    CHOOSE k \in ColonIndices(s) :
        Cardinality({ h \in ColonIndices(s) : h < k }) = n - 1

LastColon(s) ==
    CHOOSE k \in ColonIndices(s) : \A h \in ColonIndices(s) : h <= k

\* the text before the first colon
NameToken(s) ==
    IF ColonIndices(s) = {} THEN s ELSE SubSeq(s, 1, NthColon(s, 1) - 1)

\* the text between the first and the second colon
KindToken(s) ==
    IF Cardinality(ColonIndices(s)) >= 2
    THEN SubSeq(s, NthColon(s, 1) + 1, NthColon(s, 2) - 1)
    ELSE SubSeq(s, NthColon(s, 1) + 1, Len(s))

\* the text after the last colon is a requiredness word
EndsInRequiredness(s) ==
    toLowerCase(trim(SubSeq(s, LastColon(s) + 1, Len(s))))
        \in { Str_required, Str_optional }

\* the text after the second colon, without a final requiredness segment
DescriptionText(s) ==
    IF EndsInRequiredness(s)
    THEN SubSeq(s, NthColon(s, 2) + 1, LastColon(s) - 1)
    ELSE SubSeq(s, NthColon(s, 2) + 1, Len(s))

CountColons(s) == Cardinality(ColonIndices(s))

RecognizedKinds == { Str_string, Str_number, Str_array, Str_any }

\* the latest iteration took the branch of this value-taking directive
Reached(directive) == arg = directive /\ Truthy(argNext)

\* the latest iteration took the --add-param branch and appended an entry
Added == Reached(ArgAddParam) /\ pc # "exit1"

\* this step is an iteration of parseArgs that takes the branch of directive
Reaches(directive) ==
    /\ pc = "parseArgs"
    /\ i < argc
    /\ arg' = directive
    /\ Truthy(argNext')
    /\ (i' # i \/ pc' # pc)

\* C1: the description stored for an accepted --add-param spec is the text
\* after the second colon, less a final requiredness segment, trimmed, so it
\* keeps every colon of that text; the spec
\* 'url:string:Base URL: https://example.com:required' gives name url, kind
\* string, description 'Base URL: https://example.com', required = true.
C1_DescriptionKeepsColons ==
    Added =>
        LET e == params[Len(params)]
        IN  /\ e.description = trim(DescriptionText(argNext))
            /\ CountColons(e.description) =
                  CountColons(argNext) - 2
                    - (IF EndsInRequiredness(argNext) THEN 1 ELSE 0)
            /\ argNext = Spec_url =>
                  e = [ name |-> Csv_url, type |-> Str_string,
                        description |-> Str_url_description,
                        required |-> TRUE ]

C1_Witness ==
    /\ Added
    /\ argNext = Spec_url
    /\ Len(params) = Len(DEFAULT_PARAMS) + 1
    /\ params[Len(params)].description = Str_url_description

\* C2: an --add-param spec whose kind token, trimmed and lower-cased, is not
\* string, number, array or any ends the process with status 1 and adds no
\* entry; every entry's kind is always one of the four.
C2_UnrecognizedKindFails ==
    /\ \A k \in 1..Len(params) : params[k].type \in RecognizedKinds
    /\ [][ /\ ( /\ Reaches(ArgAddParam)
                /\ CountColons(argNext') >= 1
                /\ toLowerCase(trim(KindToken(argNext'))) \notin RecognizedKinds )
              => (pc' = "exit1" /\ params' = params)
           /\ \A k \in 1..Len(params') : params'[k].type \in RecognizedKinds
         ]_vars

C2_Witness ==
    /\ Reached(ArgAddParam)
    /\ argNext = Spec_typo
    /\ pc = "exit1"
    /\ stderr[1][1] = "ERROR: Invalid type '${type}' in --add-param '${spec}'"
    /\ params = DEFAULT_PARAMS

\* the trimmed names of a comma-separated list
CsvNameSet(csv) ==
    { trim(split(csv, ",")[k]) : k \in 1..Len(split(csv, ",")) }

NameSet(ps) == { ps[k].name : k \in 1..Len(ps) }

\* the step of --required (flag = TRUE) or --optional (flag = FALSE)
MarkStepOK(directive, flag) ==
    Reaches(directive) =>
        IF CsvNameSet(argNext') \subseteq NameSet(params)
        THEN /\ pc' = "parseArgs"
             /\ Len(params') = Len(params)
             /\ \A k \in 1..Len(params) :
                   params'[k] =
                      IF params[k].name \in CsvNameSet(argNext')
                      THEN [params[k] EXCEPT !.required = flag]
                      ELSE params[k]
        ELSE /\ pc' = "exit1"
             /\ params' = params
             /\ \E l \in 1..Len(stderr') :
                   /\ stderr'[l][1] = "Available parameters: ${existingNames.join(', ')}"
                   /\ stderr'[l][2] = join(existingNames(params), <<",", " ">>)

\* C3: --required <csv> and --optional <csv> with a name (trimmed) that no
\* entry of the current set has end the process with status 1, print the
\* valid names and change no required flag; otherwise exactly the named
\* entries get required = true (resp. false).
C3_MarkValidatesBeforeApplying ==
    [][ MarkStepOK(ArgRequired, TRUE) /\ MarkStepOK(ArgOptional, FALSE) ]_vars

C3_Witness ==
    /\ Reached(ArgOptional)
    /\ argNext = Csv_depth_nope
    /\ pc = "exit1"
    /\ \A k \in 1..Len(params) : params[k].required
    /\ Len(stderr) = 2

NamesDistinct(ps) ==
    \A j, k \in 1..Len(ps) : j # k => ps[j].name # ps[k].name

\* C4: parameter names are pairwise distinct in every state, and an
\* --add-param whose trimmed name is the name of an entry already in the set
\* (a built-in default or an earlier --add-param) ends the process with
\* status 1 and appends nothing.
C4_NamesStayDistinct ==
    /\ NamesDistinct(params)
    /\ [][ /\ ( Reaches(ArgAddParam)
                /\ trim(NameToken(argNext')) \in NameSet(params) )
              => (pc' = "exit1" /\ params' = params)
           /\ NamesDistinct(params')
         ]_vars

C4_Witness ==
    /\ Reached(ArgAddParam)
    /\ argNext = Spec_url
    /\ pc = "exit1"
    /\ Len(params) = Len(DEFAULT_PARAMS) + 1
    /\ params[Len(params)].name = Csv_url
    /\ stderr[1][1] = "ERROR: Parameter '${name}' already exists"

\* C5: an --add-param spec with fewer than 3 colon-separated segments ends
\* the process with status 1 and adds no entry.
C5_ShortSpecFails ==
    [][ ( Reaches(ArgAddParam) /\ CountColons(argNext') + 1 < 3 )
          => (pc' = "exit1" /\ params' = params) ]_vars

C5_Witness ==
    /\ Reached(ArgAddParam)
    /\ argNext = Spec_two
    /\ pc = "exit1"
    /\ stderr[1][1] = "ERROR: Invalid --add-param format: '${spec}'"
    /\ params = DEFAULT_PARAMS

\* C6: an --add-param spec whose name is empty after trimming, or whose
\* description (without the requiredness suffix) is empty after trimming,
\* ends the process with status 1; every entry of every reachable set has a
\* non-empty name and a description that is non-empty after trimming.
C6_NoEmptyNameOrDescription ==
    /\ ( /\ Reached(ArgAddParam)
         /\ CountColons(argNext) >= 2
         /\ \/ trim(NameToken(argNext)) = <<>>
            \/ trim(DescriptionText(argNext)) = <<>> )
       => pc = "exit1"
    /\ \A k \in 1..Len(params) :
          /\ params[k].name # <<>>
          /\ trim(params[k].description) # <<>>

C6_Witness ==
    /\ Reached(ArgAddParam)
    /\ argNext = Spec_nodesc
    /\ pc = "exit1"
    /\ stderr[1][1] = "ERROR: Parameter description cannot be empty in --add-param '${spec}'"

DescriptionDirectives == { ArgToolDescription, ArgToolDescriptionFile }

\* the override text and its source marker are both unset or both set
OverrideConsistent ==
    (customToolDescription = null) <=> (toolDescriptionSource = null)

\* once set, the override and its marker never change
OverrideSetOnce ==
    toolDescriptionSource # null =>
        /\ customToolDescription' = customToolDescription
        /\ toolDescriptionSource' = toolDescriptionSource

\* the message of a later description directive d, the override being set
RepeatMessage(d) ==
    IF toolDescriptionSource = d
    THEN "ERROR: ${directive} can only be used once"
    ELSE "ERROR: Cannot use both --tool-description and --tool-description-file"

\* C7 as stated: after the override is set, a later --tool-description or
\* --tool-description-file reached as a directive ends the process with
\* status 1 reporting 'can only be used once' (same directive) or 'Cannot
\* use both' (the other one); the override is set at most once and text and
\* marker are set together.
C7_RepeatAlwaysReported ==
    /\ OverrideConsistent
    /\ [][ /\ OverrideSetOnce
           /\ OverrideConsistent'
           /\ ( /\ pc = "parseArgs"
                /\ i < argc
                /\ (i' # i \/ pc' # pc)
                /\ toolDescriptionSource # null
                /\ arg' \in DescriptionDirectives )
              => /\ pc' = "exit1"
                 /\ stderr'[1][1] = RepeatMessage(arg')
         ]_vars

\* C7, amended: the report is 'can only be used once' / 'Cannot use both'
\* when the later directive is followed by a non-empty value; without one it
\* is 'Unknown argument'.  In both cases the process ends with status 1.
C7_OverrideSetAtMostOnce ==
    /\ OverrideConsistent
    /\ [][ /\ OverrideSetOnce
           /\ OverrideConsistent'
           /\ ( /\ pc = "parseArgs"
                /\ i < argc
                /\ (i' # i \/ pc' # pc)
                /\ toolDescriptionSource # null
                /\ arg' \in DescriptionDirectives )
              => /\ pc' = "exit1"
                 /\ stderr'[1][1] =
                       IF Truthy(argNext')
                       THEN RepeatMessage(arg')
                       ELSE "ERROR: Unknown argument: ${arg}"
         ]_vars

C7_Witness ==
    /\ Reached(ArgToolDescription)
    /\ toolDescriptionSource = ArgToolDescriptionFile
    /\ customToolDescription = trim(File_desc)
    /\ pc = "exit1"
    /\ stderr[1][1] = "ERROR: Cannot use both --tool-description and --tool-description-file"

Exited == pc \in { "exit0", "exit1" }

\* what the error stream of a serving process holds: the start-up notice
ServingNotice == << << "Self-MCP server running on stdio" >> >>

\* C8: the server serves only after parseArgs has gone through all of argv
\* without a fatal error; once the process has exited it never serves, and
\* requests are answered in the serving state only.
C8_FailFast ==
    [][ /\ Exited => pc' = pc
        /\ pc' = "serving" =>
              /\ pc \in { "parseArgs", "serving" }
              /\ i' >= argc'
              /\ stderr' = ServingNotice
        /\ (request' # request \/ response' # response) =>
              (pc = "serving" /\ stderr = ServingNotice)
      ]_vars

C8_Witness ==
    /\ pc = "serving"
    /\ argc >= 2
    /\ i >= argc
    /\ Len(params) > Len(DEFAULT_PARAMS)
    /\ request.method = "tools/call"
    /\ response.kind = "result"

RecognizedDirectives ==
    { ArgAllRequired, ArgAllOptional, ArgRequired, ArgOptional, ArgAddParam,
      ArgToolDescription, ArgToolDescriptionFile, ArgHelp, ArgH }

StartsWithDash(s) == Len(s) >= 1 /\ s[1] = "-"

\* C9: a token reached as a directive that starts with a dash and is not a
\* recognized directive ends the process with status 1.
C9_UnknownFlagFails ==
    ( arg # undefined /\ StartsWithDash(arg) /\ arg \notin RecognizedDirectives )
       => /\ pc = "exit1"
          /\ stderr[1] = << "ERROR: Unknown argument: ${arg}", arg >>

C9_Witness ==
    /\ arg = Tok_requried
    /\ pc = "exit1"
    /\ i > 0
    /\ Len(stderr) = 2

\* the diagnostics of parseArgs
ValidationErrors ==
    { "ERROR: Unknown parameter names in ${directive}: ${invalidNames.join(', ')}",
      "ERROR: Invalid --add-param format: '${spec}'",
      "ERROR: Parameter name cannot be empty in --add-param '${spec}'",
      "ERROR: Invalid type '${type}' in --add-param '${spec}'",
      "ERROR: Parameter '${name}' already exists",
      "ERROR: Parameter description cannot be empty in --add-param '${spec}'",
      "ERROR: ${directive} can only be used once",
      "ERROR: Cannot use both --tool-description and --tool-description-file",
      "ERROR: Tool description cannot be empty",
      "ERROR: Failed to read tool description file '${filepath}': ${error.message}",
      "ERROR: Tool description file '${filepath}' is empty",
      "ERROR: Unknown argument: ${arg}" }

\* a diagnostic of parseArgs, or the report of a failed connect, was printed
Diagnosed ==
    \E l \in 1..Len(stderr) :
        stderr[l][1] \in ValidationErrors \cup { "Server error:" }

\* C10: the process exits with status 0 exactly on help, keeps running
\* (serves) when parsing ends without a diagnostic, and exits with status 1
\* exactly when a diagnostic was printed; an exit with status 1 during
\* parsing always starts with a validation diagnostic.
C10_ExitStatuses ==
    /\ pc = "exit0" <=> (arg \in { ArgHelp, ArgH })
    /\ pc = "exit0" => (stderr = <<>> /\ stdout = << HelpText >>)
    /\ pc = "exit1" <=> Diagnosed
    /\ (pc = "exit1" /\ i < argc) => stderr[1][1] \in ValidationErrors
    /\ pc = "serving" => (i >= argc /\ stderr = ServingNotice /\ stdout = <<>>)

C10_Witness ==
    /\ pc = "exit0"
    /\ arg = ArgH
    /\ i > 0
    /\ params # DEFAULT_PARAMS

(***************************************************************************)
(* Properties of argv as a whole (SpecArgv).  The positions read as        *)
(* directives are described from argv alone: position 1 is one, and the    *)
(* position after a directive is one, past its value if it takes one.      *)
(***************************************************************************)
RECURSIVE DirectivePositionsFrom(_, _)
DirectivePositionsFrom(as, p) ==
    IF p > Len(as)
    THEN {}
    ELSE {p} \cup DirectivePositionsFrom(as, IF as[p] \in valueDirectives
                                             THEN p + 2
                                             ELSE p + 1)

DirectivePositions(as) == DirectivePositionsFrom(as, 1)

\* the --add-param whose spec names the entry, 0 for a built-in entry
BornAt(as, name) ==
    IF name \in NameSet(DEFAULT_PARAMS)
    THEN 0
    ELSE CHOOSE p \in DirectivePositions(as) :
            /\ as[p] = ArgAddParam
            /\ p < Len(as)
            /\ trim(NameToken(as[p + 1])) = name

\* the required flag an entry starts with
InitialFlag(as, name) ==
    IF name \in NameSet(DEFAULT_PARAMS)
    THEN name = Name_prompt
    ELSE LET spec == as[BornAt(as, name) + 1] IN
         toLowerCase(trim(SubSeq(spec, LastColon(spec) + 1, Len(spec))))
             = Str_required

\* the requiredness directives that apply to the entry, by position
TouchedAt(as, name) ==
    { p \in DirectivePositions(as) :
        /\ p > BornAt(as, name)
        /\ \/ as[p] \in { ArgAllRequired, ArgAllOptional }
           \/ /\ as[p] \in { ArgRequired, ArgOptional }
              /\ p < Len(as)
              /\ name \in CsvNameSet(as[p + 1]) }

\* the value set by the last directive that applies to the entry
LastFlag(as, name) ==
    IF TouchedAt(as, name) = {}
    THEN InitialFlag(as, name)
    ELSE LET last == CHOOSE p \in TouchedAt(as, name) :
                        \A q \in TouchedAt(as, name) : q <= p
         IN  as[last] \in { ArgAllRequired, ArgRequired }

\* C11: directives are applied left to right and the last one touching an
\* entry wins: while parsing and once serving, the required flag of every
\* entry is the value set by the last --all-required / --all-optional /
\* --required / --optional among the tokens read so far that applies to it,
\* or its initial value if none does; '--all-required --optional prompt'
\* ends with every entry required except prompt.
C11_LastDirectiveWins ==
    /\ pc \in { "parseArgs", "serving" } =>
          \A k \in 1..Len(params) :
             params[k].required = LastFlag(SubSeq(args, 1, i), params[k].name)
    /\ (pc = "serving" /\ args = << ArgAllRequired, ArgOptional, Name_prompt >>) =>
          \A k \in 1..Len(params) :
             params[k].required = (params[k].name # Name_prompt)

C11_Witness ==
    /\ pc = "serving"
    /\ args = << ArgAllRequired, ArgOptional, Name_prompt >>
    /\ ~params[1].required
    /\ \A k \in 2..Len(params) : params[k].required

(***************************************************************************)
(* Properties of the schema and of the request handlers.  What a           *)
(* tools/list answer must be is described from the parameter set, entry    *)
(* by entry, independently of the loop of buildToolSchema.                 *)
(***************************************************************************)
\* where the entry of that name stands in the set
PositionOf(ps, name) == CHOOSE k \in 1..Len(ps) : ps[k].name = name

\* req lists the names of the required entries, once each, in the set's order
IsRequiredList(req, ps) ==
    /\ \A k \in 1..Len(ps) :
          ps[k].required <=> \E h \in 1..Len(req) : req[h] = ps[k].name
    /\ \A h \in 1..Len(req) : req[h] \in NameSet(ps)
    /\ \A g, h \in 1..Len(req) : g # h => req[g] # req[h]
    /\ \A g, h \in 1..Len(req) :
          g < h => PositionOf(ps, req[g]) < PositionOf(ps, req[h])

\* the fields a property descriptor of the entry may hold
DescriptorFields(e) ==
    {"description"}
    \cup (IF e.type \in { Str_string, Str_number, Str_array }
          THEN {"type"} ELSE {})
    \cup (IF e.type = Str_number
          THEN {"minimum", "maximum"} \cap DOMAIN e ELSE {})
    \cup (IF e.type = Str_array THEN {"items"} \cap DOMAIN e ELSE {})

\* d is the property descriptor of the entry
IsDescriptor(d, e) ==
    /\ DOMAIN d = DescriptorFields(e)
    /\ \A f \in DOMAIN d : d[f] = e[f]

\* s is the schema of the parameter set
IsSchemaOf(s, ps) ==
    /\ DOMAIN s = { "type", "properties", "required" }
    /\ s.type = "object"
    /\ IsRequiredList(s.required, ps)
    /\ DOMAIN s.properties = NameSet(ps)
    /\ \A k \in 1..Len(ps) : IsDescriptor(s.properties[ps[k].name], ps[k])

\* r answers tools/list for the parameter set and the override
IsListAnswer(r, ps, override) ==
    /\ DOMAIN r = { "kind", "tools" }
    /\ r.kind = "result"
    /\ Len(r.tools) = 1
    /\ DOMAIN r.tools[1] = { "name", "description", "inputSchema" }
    /\ r.tools[1].name = "Self"
    /\ r.tools[1].description =
          (IF override = null THEN DefaultToolDescription ELSE override)
    /\ IsSchemaOf(r.tools[1].inputSchema, ps)

\* the success result of the tool
EmptyResult ==
    [ kind |-> "result", content |-> << [ type |-> "text", text |-> "" ] >> ]

\* C12: every tools/call request naming the tool 'Self' is answered with the
\* same success result, a content list of one text item whose text is empty,
\* whatever its arguments (absent, an object, of unexpected shape) and
\* whatever the parameter set and the description override are.
C12_SelfReturnsEmptyText ==
    (request.method = "tools/call" /\ request.name = "Self") =>
        /\ response.kind = "result"
        /\ Len(response.content) = 1
        /\ response.content[1] = [ type |-> "text", text |-> "" ]
        /\ DOMAIN response = { "kind", "content" }

C12_Witness ==
    /\ request.method = "tools/call"
    /\ request.name = "Self"
    /\ request.arguments = "string"
    /\ Len(params) > Len(DEFAULT_PARAMS)
    /\ customToolDescription # null
    /\ response = EmptyResult

\* a tools/call request for a tool name other than 'Self' is being answered
UnknownToolCalled == request.method = "tools/call" /\ request.name # "Self"

\* C13: every tools/call request whose tool name is not exactly 'Self' is
\* answered with an error naming the tool, never with a result; the process
\* keeps serving with the same parameter set and override, and the requests
\* that follow are answered as before: tools/list with the schema of the
\* set, tools/call of 'Self' with the empty result.
C13_UnknownToolIsError ==
    [][ /\ UnknownToolCalled' =>
              /\ response'.kind = "error"
              /\ response'.message =
                    << "Unknown tool: ${request.params.name}", request'.name >>
              /\ "content" \notin DOMAIN response'
              /\ pc' = "serving"
        /\ UnknownToolCalled =>
              /\ pc = "serving" /\ pc' = "serving"
              /\ params' = params
              /\ customToolDescription' = customToolDescription
              /\ ENABLED ListTools
              /\ ENABLED CallTool
              /\ request'.method = "tools/list" =>
                    IsListAnswer(response', params, customToolDescription)
              /\ (request'.method = "tools/call" /\ request'.name = "Self") =>
                    response' = EmptyResult
      ]_vars

C13_Witness ==
    /\ request = [ method |-> "tools/call", name |-> "self",
                   arguments |-> "object" ]
    /\ response.kind = "error"
    /\ pc = "serving"
    /\ Len(params) > Len(DEFAULT_PARAMS)

\* a tools/list request has been answered
Listed == request.method = "tools/list"

\* the schema of the latest tools/list answer
ListedSchema == response.tools[1].inputSchema

\* C14: the required list of the schema holds a name if and only if that
\* entry has required = true, holds each such name once, in the order of the
\* parameter set; the properties mapping has exactly one key per entry.
C14_RequiredListMatchesFlags ==
    Listed =>
        /\ IsRequiredList(ListedSchema.required, params)
        /\ Len(ListedSchema.required) =
              Cardinality({ k \in 1..Len(params) : params[k].required })
        /\ DOMAIN ListedSchema.properties = NameSet(params)
        /\ Cardinality(DOMAIN ListedSchema.properties) = Len(params)

C14_Witness ==
    /\ Listed
    /\ Len(params) = Len(DEFAULT_PARAMS) + 2
    /\ params[Len(params)].name = Csv_url
    /\ ListedSchema.required = << Name_prompt, Csv_url >>

\* C15: each property descriptor of the schema holds the description of its
\* entry; a type equal to the entry's kind for string, number and array and
\* no type for 'any'; minimum and maximum only for a number entry that has
\* them; items only for an array entry that has it; and no other field.
C15_DescriptorFields ==
    Listed =>
        \A k \in 1..Len(params) :
           LET d == ListedSchema.properties[params[k].name]
               e == params[k]
           IN  /\ "description" \in DOMAIN d /\ d.description = e.description
               /\ "type" \in DOMAIN d <=> e.type # Str_any
               /\ "type" \in DOMAIN d => d.type = e.type
               /\ \A f \in { "minimum", "maximum" } :
                     f \in DOMAIN d <=> (e.type = Str_number /\ f \in DOMAIN e)
               /\ "items" \in DOMAIN d <=>
                     (e.type = Str_array /\ "items" \in DOMAIN e)
               /\ DOMAIN d \subseteq
                     { "description", "type", "minimum", "maximum", "items" }
               /\ \A f \in DOMAIN d : d[f] = e[f]

\* a listed schema with entries of all four kinds: temperature (number, with
\* bounds), attention_heads (array, with items), count (number, no bounds)
\* and when (any)
C15_Witness ==
    /\ Listed
    /\ Len(params) = Len(DEFAULT_PARAMS) + 2
    /\ \E k \in 1..Len(params) :
          /\ params[k].type = Str_any
          /\ DOMAIN ListedSchema.properties[params[k].name] = { "description" }
    /\ \E k \in 1..Len(params) :
          /\ params[k].type = Str_number
          /\ DOMAIN ListedSchema.properties[params[k].name]
                = { "description", "type" }
    /\ DOMAIN ListedSchema.properties[Name_temperature]
          = { "description", "type", "minimum", "maximum" }
    /\ DOMAIN ListedSchema.properties[Name_attention_heads]
          = { "description", "type", "items" }

\* C16: after start-up the parameter set and the description override never
\* change: no tools/list or tools/call request, answered or failing, modifies
\* them, and every tools/list answer is the tool 'Self' with the description
\* and the schema those two determine, whatever was served before it.
C16_FrozenAfterStartup ==
    [][ /\ pc = "serving" =>
              /\ pc' = "serving"
              /\ params' = params
              /\ customToolDescription' = customToolDescription
              /\ toolDescriptionSource' = toolDescriptionSource
        /\ Listed' => IsListAnswer(response', params', customToolDescription')
      ]_vars

\* a tools/list answered for a set and an override that differ from the
\* built-in ones
C16_Witness ==
    /\ Listed
    /\ IsListAnswer(response, params, customToolDescription)
    /\ customToolDescription # null
    /\ Len(params) > Len(DEFAULT_PARAMS)
    /\ response.tools[1].description = customToolDescription

(***************************************************************************)
(* Properties of the kind token of --add-param.                            *)
(***************************************************************************)
\* the capital of a lower-case letter
Capital(c) == UpperCase[CHOOSE k \in 1..Len(LowerCase) : LowerCase[k] = c]

\* t spells the lower-case word, each letter in either case
IsCaseVariant(t, word) ==
    /\ Len(t) = Len(word)
    /\ \A k \in 1..Len(word) : t[k] \in { word[k], Capital(word[k]) }

\* the kind token of the spec, without the white space around it
TrimmedKind(spec) == trim(KindToken(spec))

InvalidTypeMessage == "ERROR: Invalid type '${type}' in --add-param '${spec}'"

HasCapitalisedKind(spec) ==
    /\ CountColons(spec) >= 2
    /\ TrimmedKind(spec) # toLowerCase(TrimmedKind(spec))

\* the latest iteration reported an invalid type and ended the process
InvalidTypeReported ==
    /\ pc = "exit1"
    /\ stderr # << >>
    /\ stderr[1][1] = InvalidTypeMessage

\* "count", "desc"
Name_count == << "c", "o", "u", "n", "t" >>

Desc_count == << "d", "e", "s", "c" >>

RECURSIVE SortedPositions(_)
SortedPositions(S) ==
    IF S = {}
    THEN << >>
    ELSE LET least == CHOOSE p \in S : \A q \in S : p <= q
         IN  << least >> \o SortedPositions(S \ {least})

\* the directive at position p, together with the value it takes
GroupAt(as, p) ==
    IF as[p] \in valueDirectives /\ p < Len(as)
    THEN << as[p], as[p + 1] >>
    ELSE << as[p] >>

\* argv cut into its directives, each with its value
Groups(as) ==
    LET at == SortedPositions(DirectivePositions(as))
    IN  [k \in 1..Len(at) |-> GroupAt(as, at[k])]

RECURSIVE Flatten(_)
Flatten(gs) == IF gs = << >> THEN << >> ELSE Head(gs) \o Flatten(Tail(gs))

Orders(m) ==
    { f \in [1..m -> 1..m] : \A a, b \in 1..m : a # b => f[a] # f[b] }

\* every argv made of the same directives, in any order
Reorderings(as) ==
    LET gs == Groups(as)
    IN  { Flatten([k \in 1..Len(gs) |-> gs[f[k]]]) : f \in Orders(Len(gs)) }

\* the required flag of every entry, by name
RequiredFlags(ps) == { << ps[k].name, ps[k].required >> : k \in 1..Len(ps) }

\* parseArgs has just returned the final set and the server starts
Started == pc = "serving" /\ request.method = "none"

\* every reordering of argv is accepted too, with the same required flags
SameWhateverTheOrder ==
    \A r \in Reorderings(args) :
       /\ parseArgsOf(r).status = "returned"
       /\ RequiredFlags(parseArgsOf(r).params) = RequiredFlags(params)

\* argv holds no --add-param and its requiredness directives all set the
\* same value
SameValueDirectives(as) ==
    LET used == { as[p] : p \in DirectivePositions(as) }
    IN  /\ ArgAddParam \notin used
        /\ \/ used \cap { ArgAllRequired, ArgRequired } = {}
           \/ used \cap { ArgAllOptional, ArgOptional } = {}

\* what the run has come to is what parseArgs makes of args
RunIsParseArgs ==
    /\ pc = "serving" =>
          parseArgsOf(args) =
             [ status                |-> "returned",
               params                |-> params,
               customToolDescription |-> customToolDescription,
               toolDescriptionSource |-> toolDescriptionSource ]
    /\ pc = "exit0" => parseArgsOf(args).status = "exit0"
    /\ (pc = "exit1" /\ stderr[Len(stderr)] # << "Server error:" >>) =>
          parseArgsOf(args).status = "exit1"

\* C19, as stated: for any argv the parser accepts, reordering its
\* directives, each value-taking directive kept together with its value,
\* is accepted too and gives the same final required flags.
C19_OrderIndependent == Started => SameWhateverTheOrder

\* C19, amended: the result depends on the order of the directives
\* ('--all-required --optional prompt' leaves prompt optional,
\* '--optional prompt --all-required' leaves it required); reordering the
\* directives of an accepted argv gives the same outcome and the same final
\* required flags when argv holds no --add-param and its requiredness
\* directives all set the same value.
C19_OrderMattersUnlessSameValue ==
    /\ RunIsParseArgs
    /\ (Started /\ SameValueDirectives(args)) => SameWhateverTheOrder
    /\ parseArgsOf(<< ArgAllRequired, ArgOptional, Name_prompt >>).params[1].required
          = FALSE
    /\ parseArgsOf(<< ArgOptional, Name_prompt, ArgAllRequired >>).params[1].required
          = TRUE

C19_Witness ==
    /\ Started
    /\ args = << ArgAllRequired, ArgRequired, Csv_depth_extra, Name_prompt >>
    /\ Cardinality(Reorderings(args)) = 6
    /\ << ArgRequired, Csv_depth_extra, Name_prompt, ArgAllRequired >>
          \in Reorderings(args)
    /\ \A k \in 1..Len(params) : params[k].required

(***************************************************************************)
(* --all-required and --all-optional.                                      *)
(***************************************************************************)
RequirednessDirectives ==
    { ArgAllRequired, ArgAllOptional, ArgRequired, ArgOptional }

\* this step is the iteration of parseArgs that reads the directive
Reads(directive) ==
    /\ pc = "parseArgs"
    /\ i < argc
    /\ args[i + 1] = directive

\* the step sets required to flag on every entry and changes nothing else
SetsAll(flag) ==
    /\ pc' = "parseArgs"
    /\ i' = i + 1
    /\ stderr' = stderr
    /\ stdout' = stdout
    /\ Len(params') = Len(params)
    /\ \A k \in 1..Len(params) :
          /\ params'[k].required = flag
          /\ DOMAIN params'[k] = DOMAIN params[k]
          /\ \A f \in DOMAIN params[k] \ { "required" } :
                params'[k][f] = params[k][f]

\* the spec ends in the segment 'required'
CarriesRequired(spec) ==
    /\ ColonIndices(spec) # {}
    /\ toLowerCase(trim(SubSeq(spec, LastColon(spec) + 1, Len(spec))))
          = Str_required

\* --all-optional is the last requiredness directive of argv and no
\* --add-param after it carries ':required'
AllOptionalIsLast(as) ==
    \E p \in DirectivePositions(as) :
       /\ as[p] = ArgAllOptional
       /\ \A q \in DirectivePositions(as) :
             q > p =>
                /\ as[q] \notin RequirednessDirectives
                /\ (as[q] = ArgAddParam /\ q < Len(as)) =>
                      ~CarriesRequired(as[q + 1])

BuiltInNames ==
    << Name_prompt, Name_temperature, Name_thinking_style, Name_archetype,
       Name_strategy, Name_scope, Name_depth, Name_extra,
       Name_attention_heads >>

\* their kinds
BuiltInKinds ==
    << Str_string, Str_number, Str_string, Str_string, Str_string,
       Str_string, Str_string, Str_string, Str_array >>

\* C21: with no command-line arguments the final set is the 9 built-in
\* definitions in their fixed order, prompt required and all others
\* optional, and the required list of the schema is exactly <<prompt>>.
C21_DefaultsWithoutArguments ==
    (argc = 0 /\ pc = "serving") =>
        /\ Len(params) = Len(BuiltInNames)
        /\ \A k \in 1..Len(params) :
              /\ params[k].name = BuiltInNames[k]
              /\ params[k].type = BuiltInKinds[k]
              /\ params[k].required <=> (k = 1)
        /\ customToolDescription = null
        /\ Listed =>
              /\ ListedSchema.required = << Name_prompt >>
              /\ DOMAIN ListedSchema.properties =
                    { BuiltInNames[k] : k \in 1..Len(BuiltInNames) }

C21_Witness ==
    /\ argc = 0
    /\ pc = "serving"
    /\ Listed
    /\ Len(params) = Len(BuiltInNames)
    /\ ListedSchema.required = << Name_prompt >>

(***************************************************************************)
(* The requiredness suffix of an --add-param spec.                         *)
(***************************************************************************)
\* the text after the last colon, trimmed, in lower case
LastSegment(spec) ==
    toLowerCase(trim(SubSeq(spec, LastColon(spec) + 1, Len(spec))))

\* C22: the entry added for an accepted --add-param spec is required exactly
\* when the last colon segment, trimmed and compared case-insensitively, is
\* 'required'; it is optional when that segment is 'optional' or is no
\* requiredness word; a requiredness segment is not part of the stored
\* description, which is the trimmed text between the second and the last
\* colon.
C22_RequirednessSuffix ==
    [][ (Reaches(ArgAddParam) /\ pc' # "exit1") =>
          LET spec  == argNext'
              entry == params'[Len(params')]
          IN  /\ Len(params') = Len(params) + 1
              /\ entry.required <=> (LastSegment(spec) = Str_required)
              /\ LastSegment(spec) \in { Str_required, Str_optional } =>
                    entry.description =
                       trim(SubSeq(spec, NthColon(spec, 2) + 1,
                                   LastColon(spec) - 1))
              /\ LastSegment(spec) \notin { Str_required, Str_optional } =>
                    /\ ~entry.required
                    /\ entry.description =
                          trim(SubSeq(spec, NthColon(spec, 2) + 1, Len(spec)))
      ]_vars

\* "Level: 1:5"
Desc_level == << "L", "e", "v", "e", "l", ":", " ", "1", ":", "5" >>

\* 'level:number:Level: 1:5: REQUIRED ' adds a required entry
C22_Witness ==
    /\ Added
    /\ argNext = Spec_level
    /\ params[Len(params)].required
    /\ params[Len(params)].description = Desc_level

(***************************************************************************)
(* The description of the tool.                                            *)
(***************************************************************************)
\* the content of the file, or null if no such file can be read
ContentOf(path) ==
    IF \E f \in Files : f[1] = path
    THEN (CHOOSE f \in Files : f[1] = path)[2]
    ELSE null

\* the text the directive asks for as override, null if there is none
OverrideAsked(directive, value) ==
    IF directive = ArgToolDescription THEN value ELSE ContentOf(value)

\* "Be calm."
Text_calm == << "B", "e", " ", "c", "a", "l", "m", "." >>

\* C23: the description tools/list advertises is the override whenever one
\* was accepted at start-up and the built-in text otherwise; an accepted
\* --tool-description sets the override to its trimmed text, an accepted
\* --tool-description-file to the trimmed content of the file, and nothing
\* else sets it; a text that is empty after trimming or a file that cannot
\* be read ends the process with status 1, so that no default is served.
C23_AdvertisedDescription ==
    [][ /\ \A d \in DescriptionDirectives :
              Reaches(d) =>
                 LET asked == OverrideAsked(d, argNext')
                 IN  /\ (asked = null \/ trim(asked) = << >>) =>
                           /\ pc' = "exit1"
                           /\ customToolDescription' = customToolDescription
                     /\ pc' # "exit1" =>
                           /\ customToolDescription = null
                           /\ customToolDescription' = trim(asked)
        /\ customToolDescription' # customToolDescription =>
              \E d \in DescriptionDirectives : Reaches(d)
        /\ Listed' =>
              /\ pc' = "serving"
              /\ response'.tools[1].description =
                    (IF customToolDescription' = null
                     THEN DefaultToolDescription
                     ELSE customToolDescription')
              /\ response'.tools[1].description # << >>
      ]_vars

C23_Witness ==
    /\ Listed
    /\ arg = ArgToolDescription
    /\ argNext = Txt_calm
    /\ customToolDescription = Text_calm
    /\ response.tools[1].description = Text_calm

(***************************************************************************)
(* What the directives leave alone.                                        *)
(***************************************************************************)
\* the two entries differ in their required flag at most
SameButRequired(e, f) ==
    /\ DOMAIN e = DOMAIN f
    /\ \A x \in DOMAIN e \ { "required" } : e[x] = f[x]

\* the built-in definitions are the first entries of the set, in order
BuiltInsArePrefix(ps) ==
    /\ Len(ps) >= Len(DEFAULT_PARAMS)
    /\ \A k \in 1..Len(DEFAULT_PARAMS) :
          /\ ps[k].name = BuiltInNames[k]
          /\ SameButRequired(ps[k], DEFAULT_PARAMS[k])

\* the entries after the built-in ones hold no minimum, maximum or items
AddedAreBare(ps) ==
    \A k \in (Len(DEFAULT_PARAMS) + 1)..Len(ps) :
       DOMAIN ps[k] = { "name", "type", "description", "required" }

\* C24: a directive changes the set only by setting required on existing
\* entries or by appending one entry at the end: no step removes or
\* reorders an entry or changes the name, kind, description, minimum,
\* maximum or items of an existing one; only --add-param appends; the
\* built-in definitions stay the first entries, in order; and an entry
\* created by --add-param holds no minimum, maximum or items.
C24_OnlyToggleOrAppend ==
    /\ BuiltInsArePrefix(params)
    /\ AddedAreBare(params)
    /\ [][ /\ Len(params') \in { Len(params), Len(params) + 1 }
           /\ \A k \in 1..Len(params) : SameButRequired(params'[k], params[k])
           /\ Len(params') = Len(params) + 1 =>
                 /\ Reaches(ArgAddParam)
                 /\ DOMAIN params'[Len(params')] =
                       { "name", "type", "description", "required" }
           /\ (\E k \in 1..Len(params) : params'[k] # params[k]) =>
                 /\ arg' \in RequirednessDirectives
                 /\ pc = "parseArgs"
           /\ BuiltInsArePrefix(params')
           /\ AddedAreBare(params')
         ]_vars

\* after --add-param and --all-required: ten entries, the built-in ones
\* first with their bounds and items, all required
C24_Witness ==
    /\ arg = ArgAllRequired
    /\ Len(params) = Len(DEFAULT_PARAMS) + 1
    /\ \A k \in 1..Len(params) : params[k].required
    /\ params[2].minimum = 0 /\ params[2].maximum = 2
    /\ "items" \in DOMAIN params[9]
    /\ DOMAIN params[10] = { "name", "type", "description", "required" }

(***************************************************************************)
(* Names are validated against the set as it stands.                       *)
(***************************************************************************)
\* the names of the specs of the --add-param directives before position at
AddedBefore(as, at) ==
    { trim(NameToken(as[p + 1])) :
        p \in { q \in DirectivePositions(as) :
                  q < at /\ q < Len(as) /\ as[q] = ArgAddParam } }

\* the names a --required/--optional at position at may refer to
KnownAt(as, at) ==
    { BuiltInNames[k] : k \in 1..Len(BuiltInNames) } \cup AddedBefore(as, at)

UnknownNamesMessage ==
    "ERROR: Unknown parameter names in ${directive}: ${invalidNames.join(', ')}"

\* C25: the names of --required/--optional are validated against the set as
\* it stands at that position of argv: the directive is accepted when every
\* name is a built-in one or the name of an --add-param before it, and
\* otherwise ends the process with status 1 as unknown names, also when a
\* later --add-param introduces the name; and an entry appended after
\* --all-required keeps the required flag of its own spec.
C25_ValidatedAgainstCurrentSet ==
    [][ /\ \A d \in { ArgRequired, ArgOptional } :
              (Reads(d) /\ Truthy(nextArg(args, i))) =>
                 IF CsvNameSet(nextArg(args, i)) \subseteq KnownAt(args, i + 1)
                 THEN pc' = "parseArgs" /\ i' = i + 2 /\ stderr' = stderr
                 ELSE /\ pc' = "exit1"
                      /\ params' = params
                      /\ stderr'[Len(stderr) + 1][1] = UnknownNamesMessage
        /\ (Reads(ArgAddParam) /\ Truthy(nextArg(args, i)) /\ pc' # "exit1") =>
              params'[Len(params')].required
                 = (LastSegment(nextArg(args, i)) = Str_required)
        /\ (pc' = "serving"
            /\ args = << ArgAllRequired, ArgAddParam, Spec_count >>) =>
              /\ \A k \in 1..Len(DEFAULT_PARAMS) : params'[k].required
              /\ ~params'[Len(params')].required
        /\ args = << ArgOptional, Csv_url, ArgAddParam, Spec_url >> =>
              pc' \in { "parseArgs", "exit1" } /\ Len(params') = Len(DEFAULT_PARAMS)
        /\ (args = << ArgAddParam, Spec_url, ArgOptional, Csv_url >> /\ i' = 4) =>
              /\ \A l \in 1..Len(stderr') : stderr'[l][1] # UnknownNamesMessage
              /\ params'[Len(params')].name = Csv_url
              /\ ~params'[Len(params')].required
      ]_vars

\* '--optional url --add-param url:...' has failed on the unknown name url
C25_Witness ==
    /\ args = << ArgOptional, Csv_url, ArgAddParam, Spec_url >>
    /\ pc = "exit1"
    /\ stderr[1][1] = UnknownNamesMessage
    /\ params = DEFAULT_PARAMS

(***************************************************************************)
(* A requiredness word where the description should be.                    *)
(***************************************************************************)
\* the text holds a colon and ends in a segment that is a requiredness word
EndsInRequirednessSegment(s) == ColonIndices(s) # {} /\ EndsInRequiredness(s)

\* the spec has three segments only and the third is a requiredness word
OnlySuffixAsDescription(spec) ==
    CountColons(spec) = 2 /\ EndsInRequiredness(spec)

\* the spec has five segments or more and ends in two requiredness words
DoubleSuffix(spec) ==
    /\ CountColons(spec) >= 4
    /\ EndsInRequiredness(spec)
    /\ EndsInRequiredness(SubSeq(spec, 1, LastColon(spec) - 1))

EmptyDescriptionMessage ==
    "ERROR: Parameter description cannot be empty in --add-param '${spec}'"

\* a three-segment spec ending in a requiredness word is rejected
SuffixOnlyFails ==
    [][ (Reaches(ArgAddParam) /\ OnlySuffixAsDescription(argNext')) =>
           /\ pc' = "exit1"
           /\ params' = params
           /\ argNext' = Spec_suffix_only =>
                 stderr'[Len(stderr) + 1][1] = EmptyDescriptionMessage
      ]_vars

\* "Mode: optional"
Desc_double ==
    << "M", "o", "d", "e", ":", " ", "o", "p", "t", "i", "o", "n", "a", "l" >>

UnknownArgumentMessage == "ERROR: Unknown argument: ${arg}"

\* this step is the iteration that reads a value-taking directive which is
\* the last token or is followed by the empty string
ReadsWithoutValue ==
    /\ pc = "parseArgs"
    /\ i < argc
    /\ arg' \in valueDirectives
    /\ argNext' \in { undefined, Tok_empty }
    /\ (i' # i \/ pc' # pc)

\* C27: a value-taking directive (--required, --optional, --add-param,
\* --tool-description, --tool-description-file) that is the last token of
\* argv, or is followed by an empty-string token, ends the process with
\* status 1, reported as an unknown argument, and changes neither the set
\* nor the override; it is never skipped.
C27_MissingValueFails ==
    [][ /\ ReadsWithoutValue =>
              /\ pc' = "exit1"
              /\ stderr' = stderr \o
                    << << UnknownArgumentMessage, arg' >>,
                       << "Run with --help to see available options" >> >>
              /\ params' = params
              /\ customToolDescription' = customToolDescription
              /\ toolDescriptionSource' = toolDescriptionSource
        /\ (pc' = "parseArgs" /\ arg' \in valueDirectives) =>
              argNext' \notin { undefined, Tok_empty }
      ]_vars

\* --add-param followed by the empty string
C27_Witness ==
    /\ arg = ArgAddParam
    /\ argNext = Tok_empty
    /\ pc = "exit1"
    /\ stderr[1] = << UnknownArgumentMessage, ArgAddParam >>
    /\ params = DEFAULT_PARAMS

\* the directive read at position i + 1 takes the token after it as value
TakesValue ==
    /\ args[i + 1] \in valueDirectives
    /\ i + 1 < argc
    /\ args[i + 2] # << >>

\* this step is an iteration of parseArgs
Iterates == pc = "parseArgs" /\ i < argc

\* C28: the token after a value-taking directive is consumed as its value,
\* also when it is itself a recognized directive, and is not read as a
\* directive: an iteration reads the token at i as directive, takes the next
\* one as value if the directive takes one, and goes on past both; i only
\* grows, every position read as a directive is one argv alone determines,
\* and the loop ends within one pass over argv.
C28_ValueIsConsumedOnce ==
    [][ /\ Iterates =>
              /\ arg' = args[i + 1]
              /\ (i + 1) \in DirectivePositions(args)
              /\ TakesValue => argNext' = args[i + 2]
              /\ pc' = "parseArgs" =>
                    i' = (IF TakesValue THEN i + 2 ELSE i + 1)
              /\ pc' # "parseArgs" => i' \in { i, i + 1 }
        /\ i' >= i
        /\ i' <= argc
        /\ pc' = "serving" => i' = argc
        /\ args = << ArgToolDescription, ArgAllRequired >> =>
              /\ pc' \notin { "exit0", "exit1" } \/ stderr' = << << "Server error:" >> >>
              /\ \A k \in 1..Len(params') : params'[k].required <=> (k = 1)
              /\ customToolDescription' \in { null, ArgAllRequired }
        /\ args = << ArgToolDescription, ArgHelp, Tok_requried >> =>
              /\ pc' # "exit0"
              /\ stdout' = << >>
        /\ args = << ArgOptional, ArgAllRequired >> =>
              \A k \in 1..Len(params') : params'[k].required <=> (k = 1)
      ]_vars

\* '--tool-description --all-required': the override is the text
\* '--all-required' and no entry but prompt is required
C28_Witness ==
    /\ args = << ArgToolDescription, ArgAllRequired >>
    /\ pc = "serving"
    /\ i = 2
    /\ customToolDescription = ArgAllRequired
    /\ \A k \in 2..Len(params) : ~params[k].required

\* this step is the iteration that reads a token which is no recognized
\* directive and does not start with a dash
ReadsPlainToken ==
    /\ pc = "parseArgs"
    /\ i < argc
    /\ arg' \notin RecognizedDirectives
    /\ ~StartsWithDash(arg')
    /\ (i' # i \/ pc' # pc)

\* C29: a token that is reached as a directive, does not start with a dash
\* and is not a recognized directive is skipped: parsing goes on with the
\* next token, the process does not end, nothing is printed and neither the
\* parameter set nor the description override changes.
C29_PlainTokenSkipped ==
    [][ ReadsPlainToken =>
           /\ pc' = "parseArgs"
           /\ i' = i + 1
           /\ params' = params
           /\ customToolDescription' = customToolDescription
           /\ toolDescriptionSource' = toolDescriptionSource
           /\ stderr' = stderr
           /\ stdout' = stdout
      ]_vars

\* a spec that is not the value of --add-param has been stepped over, after
\* an override was set
C29_Witness ==
    /\ arg = Spec_url
    /\ pc = "parseArgs"
    /\ i = 3
    /\ params = DEFAULT_PARAMS
    /\ customToolDescription # null
    /\ stderr = << >>

\* the first position read as a directive that holds --help or -h, 0 if none
FirstHelp(as) ==
    LET helps == { p \in DirectivePositions(as) : as[p] \in { ArgHelp, ArgH } }
    IN  IF helps = {} THEN 0
        ELSE CHOOSE p \in helps : \A q \in helps : p <= q

\* C30: when --help or -h is reached as a directive the process exits with
\* status 0 at once and never serves: the usage text is printed, the tokens
\* after it are not read, so that invalid directives after help are not
\* diagnosed, while a failing directive before help exits with status 1
\* first, without the usage text.
C30_HelpExitsAtOnce ==
    [][ /\ (Iterates /\ args[i + 1] \in { ArgHelp, ArgH }) =>
              /\ pc' = "exit0"
              /\ i' = i
              /\ stdout' = << HelpText >>
              /\ stderr' = stderr /\ stderr = << >>
              /\ i + 1 = FirstHelp(args)
        /\ pc = "exit0" => UNCHANGED vars
        /\ pc' = "exit0" =>
              /\ FirstHelp(args) = i' + 1
              /\ stderr' = << >>
        /\ (pc' = "exit1" /\ stderr'[1] # << "Server error:" >>) =>
              /\ stdout' = << >>
              /\ FirstHelp(args) = 0 \/ i' < FirstHelp(args)
        /\ pc' = "serving" => FirstHelp(args) = 0
        /\ (args = << ArgHelp, Tok_requried >> /\ (i' # i \/ pc' # pc)) =>
              pc' = "exit0"
        /\ (args = << Tok_requried, ArgHelp >> /\ (i' # i \/ pc' # pc)) =>
              /\ pc' = "exit1"
              /\ stderr'[1] = << UnknownArgumentMessage, Tok_requried >>
      ]_vars

\* '--all-required --help --requried': help after one directive, before a
\* misspelt flag that is never read
C30_Witness ==
    /\ args = << ArgAllRequired, ArgHelp, Tok_requried >>
    /\ pc = "exit0"
    /\ i = 1
    /\ stdout = << HelpText >>
    /\ stderr = << >>
====
